---------------------------- MODULE Spec2Model ----------------------------
(***************************************************************************)
(* A model of the jlox pipeline of this repository (src/jlox/src):        *)
(* Scanner -> Parser -> Interpreter, driven by Lox::run / Lox::run_file.  *)
(*                                                                         *)
(* Source text is a sequence of one-character strings.  Tokens, syntax    *)
(* trees and values are records.  The scanner, the parser and the         *)
(* interpreter are translated function by function; the state machine     *)
(* takes one step per iteration of the loops of scan_tokens, parse and    *)
(* interpret.                                                              *)
(***************************************************************************)
EXTENDS Integers, Sequences, FiniteSets, TLC

VARIABLES
  mode,         \* "file" for Lox::run_file, "prompt" for Lox::run_prompt
  lines,        \* lines read by run_prompt so far
  pc,           \* where the process is: "prompt" (run_prompt waits for a line), "scan",
                \* "parse", "interpret" (inside Lox::run), "diverged" (a statement that
                \* does not return), "exited", "aborted" (a panic)
  source,       \* Scanner.source / CharStream.chars
  stream,       \* CharStream.pos : [line, ch, idx]
  start,        \* Scanner.start
  tokens,       \* Scanner.tokens, then Parser.tokens
  current,      \* Parser.current
  statements,   \* the Vec<Stmt> built by Parser::parse
  ip,           \* index of the next statement of Interpreter::interpret's loop
  interp,       \* the Interpreter: its environment chain, the output, bookkeeping
  reports,      \* every error handed to Lox::report, in order
  events,       \* the parser's trace: errors constructed, errors reported, synchronizations
                \* (where they start, where parsing resumes)
  exitCode      \* process exit status once pc = "exited" or "aborted"

vars == <<mode, lines, pc, source, stream, start, tokens, current, statements, ip, interp,
          reports, events, exitCode>>

-----------------------------------------------------------------------------
(* Bounds of the model *)

\* longest enumerated source text, in characters
MaxSrcLen == 4
\* while-loop iterations and user-function calls one statement may make before the
\* model gives the run up as not returning
MaxFuel == 5
\* lines one interactive session reads
MaxLines == 3

-----------------------------------------------------------------------------
(* Characters *)

\* Option::None of Vec::get
NoChar == "<none>"
\* '\0', what CharStream::peek answers past the end
Nul == "<nul>"

Digits == {"0", "1", "2", "3", "4", "5", "6", "7", "8", "9"}
Letters == {"a", "b", "c", "d", "e", "f", "g", "h", "i", "j", "k", "l", "m",
            "n", "o", "p", "q", "r", "s", "t", "u", "v", "w", "x", "y", "z"}

\* char::is_digit(10)
IsDigit(c) == c \in Digits
\* char::is_alphanumeric, on the characters the model uses
IsAlphanumeric(c) == c \in Letters \cup Digits

DigitVal(c) ==
  CASE c = "0" -> 0 [] c = "1" -> 1 [] c = "2" -> 2 [] c = "3" -> 3
    [] c = "4" -> 4 [] c = "5" -> 5 [] c = "6" -> 6 [] c = "7" -> 7
    [] c = "8" -> 8 [] c = "9" -> 9

-----------------------------------------------------------------------------
(* Literal values (lit.rs) *)

LitNil == [t |-> "Nil"]
LitBool(b) == [t |-> "Bool", b |-> b]
LitStr(s) == [t |-> "Str", s |-> s]

RECURSIVE NumNorm(_, _)
\* a number n * 10^-k, without trailing zeros in its fraction
NumNorm(n, k) ==
  IF k > 0 /\ n % 10 = 0 THEN NumNorm(n \div 10, k - 1)
  ELSE [t |-> "Num", n |-> n, k |-> k]

LitNum(n) == NumNorm(n, 0)

\* placeholder of Token.ty's payload for a token that is no Literal
NoLit == [t |-> "None"]

-----------------------------------------------------------------------------
(* CharStream (scanner.rs) *)

\* Vec::get with a 0-based index
Get(chars, i) == IF i >= 0 /\ i < Len(chars) THEN chars[i + 1] ELSE NoChar

InitPos == [line |-> 1, ch |-> 0, idx |-> 0]

\* CharStream::next: the new position and the character read (or NoChar)
StreamNext(chars, p) ==
  LET idx == p.idx + 1
      nl == idx > 1 /\ Get(chars, idx - 2) = "\n"
  IN [pos |-> [line |-> IF nl THEN p.line + 1 ELSE p.line,
               ch |-> IF nl THEN 0 ELSE p.ch + 1,
               idx |-> idx],
      c |-> Get(chars, idx - 1)]

Advance(chars, p) == StreamNext(chars, p).pos

\* CharStream::peek_n
PeekN(chars, p, n) ==
  IF Get(chars, p.idx + n) = NoChar THEN Nul ELSE Get(chars, p.idx + n)

\* CharStream::peek
Peek(chars, p) == PeekN(chars, p, 0)

\* CharStream::is_eof (only ever called after a next, so idx >= 1)
IsEof(chars, p) == Get(chars, p.idx - 1) = NoChar

\* CharStream::str_from_to: skip(from).take(to - from)
StrFromTo(chars, from, to) ==
  SubSeq(chars, from + 1, IF to > Len(chars) THEN Len(chars) ELSE to)


-----------------------------------------------------------------------------
(* Tokens (scanner.rs) *)

KW_and == <<"a", "n", "d">>
KW_class == <<"c", "l", "a", "s", "s">>
KW_else == <<"e", "l", "s", "e">>
KW_false == <<"f", "a", "l", "s", "e">>
KW_for == <<"f", "o", "r">>
KW_fun == <<"f", "u", "n">>
KW_if == <<"i", "f">>
KW_nil == <<"n", "i", "l">>
KW_or == <<"o", "r">>
KW_print == <<"p", "r", "i", "n", "t">>
KW_return == <<"r", "e", "t", "u", "r", "n">>
KW_super == <<"s", "u", "p", "e", "r">>
KW_this == <<"t", "h", "i", "s">>
KW_true == <<"t", "r", "u", "e">>
KW_var == <<"v", "a", "r">>
KW_while == <<"w", "h", "i", "l", "e">>

\* Token::new; lit is the payload of TokenType::Literal, raw of TokenType::Ident
Token(ty, raw, pos, lit) == [ty |-> ty, raw |-> raw, pos |-> pos, lit |-> lit]

\* the keyword table of Scanner::identifier: the token type of an identifier text
KeywordType(ident) ==
  CASE ident = KW_and -> "And"
    [] ident = KW_class -> "Class"
    [] ident = KW_else -> "Else"
    [] ident = KW_false -> "Literal"
    [] ident = KW_for -> "For"
    [] ident = KW_fun -> "Fun"
    [] ident = KW_if -> "If"
    [] ident = KW_nil -> "Literal"
    [] ident = KW_or -> "Or"
    [] ident = KW_print -> "Print"
    [] ident = KW_return -> "Return"
    [] ident = KW_super -> "Super"
    [] ident = KW_this -> "This"
    [] ident = KW_true -> "Literal"
    [] ident = KW_var -> "Var"
    [] ident = KW_while -> "While"
    [] OTHER -> "Ident"

KeywordLit(ident) ==
  CASE ident = KW_false -> LitBool(FALSE)
    [] ident = KW_true -> LitBool(TRUE)
    [] ident = KW_nil -> LitNil
    [] OTHER -> NoLit

-----------------------------------------------------------------------------
(* str::parse::<f64> on the texts Scanner::number can capture *)

RECURSIVE DigitsValue(_)
DigitsValue(ds) ==
  IF ds = <<>> THEN 0
  ELSE 10 * DigitsValue(SubSeq(ds, 1, Len(ds) - 1)) + DigitVal(ds[Len(ds)])

RECURSIVE Pow10(_)
Pow10(k) == IF k = 0 THEN 1 ELSE 10 * Pow10(k - 1)

AllDigits(ds) == \A i \in 1..Len(ds) : IsDigit(ds[i])

\* index of the first '.' of text, 0 when it has none
DotIndex(text) ==
  IF \E i \in 1..Len(text) : text[i] = "."
  THEN CHOOSE i \in 1..Len(text) : text[i] = "." /\ \A j \in 1..(i - 1) : text[j] # "."
  ELSE 0

\* Digit+ | Digit+ '.' Digit* | Digit+ '.' Digit* 'e' Digit+ ; anything else is an Err
ParseF64(text) ==
  LET d == DotIndex(text)
      int == SubSeq(text, 1, d - 1)
      rest == SubSeq(text, d + 1, Len(text))
  IN IF d = 0
     THEN IF text # <<>> /\ AllDigits(text)
          THEN [ok |-> TRUE, lit |-> LitNum(DigitsValue(text))]
          ELSE [ok |-> FALSE, lit |-> NoLit]
     ELSE IF int # <<>> /\ AllDigits(int) /\ AllDigits(rest)
          THEN [ok |-> TRUE,
                lit |-> NumNorm(DigitsValue(int) * Pow10(Len(rest)) + DigitsValue(rest),
                                Len(rest))]
          ELSE IF int # <<>> /\ AllDigits(int) /\ Len(rest) >= 2 /\ rest[1] = "e"
                  /\ AllDigits(Tail(rest))
               THEN [ok |-> TRUE,
                     lit |-> LitNum(DigitsValue(int) * Pow10(DigitsValue(Tail(rest))))]
               ELSE [ok |-> FALSE, lit |-> NoLit]

-----------------------------------------------------------------------------
(* Scanner (scanner.rs).  A scanner state is [pos, start, tokens, res, err]: *)
(* res is "ok" while scanning goes on, "lex" once a LexError is returned,   *)
(* "panic" once the thread has panicked.                                     *)

NoLexErr == [pos |-> InitPos, message |-> "none"]

\* Scanner::add_token
AddToken(chars, sc, ty, lit) ==
  [sc EXCEPT !.tokens = Append(sc.tokens,
                               Token(ty, StrFromTo(chars, sc.start.idx, sc.pos.idx),
                                     sc.start, lit)),
             !.start = sc.pos]

\* LoxError::lex at the stream's position
LexError(sc, message) ==
  [sc EXCEPT !.res = "lex", !.err = [pos |-> sc.pos, message |-> message]]

\* Scanner::match_next: the position afterwards (moved iff the character matched)
MatchNext(chars, p, expected) ==
  IF Peek(chars, p) = expected THEN Advance(chars, p) ELSE p

\* the one-or-two character operators of scan_token
TwoChar(chars, sc, two, one) ==
  LET p == MatchNext(chars, sc.pos, "=")
  IN AddToken(chars, [sc EXCEPT !.pos = p], IF p # sc.pos THEN two ELSE one, NoLit)

RECURSIVE CommentLoop(_, _)
\* while self.stream.peek() != '\n' && !self.stream.is_eof() { self.stream.next(); }
CommentLoop(chars, p) ==
  IF Peek(chars, p) # "\n" /\ ~IsEof(chars, p)
  THEN CommentLoop(chars, Advance(chars, p))
  ELSE p

RECURSIVE StringLoop(_, _)
\* while !self.match_next('"') && !self.stream.is_eof() { self.stream.next(); }
StringLoop(chars, p) ==
  IF Peek(chars, p) = "\""
  THEN Advance(chars, p)
  ELSE IF IsEof(chars, p) THEN p ELSE StringLoop(chars, Advance(chars, p))

\* a string scanner that takes the end of the text for the closing quote: the scanner
\* the unterminated-string rule of C14 excludes
ScanStringClosedByEnd(chars, sc) ==
  LET p == StringLoop(chars, sc.pos)
  IN AddToken(chars, [sc EXCEPT !.pos = p], "Literal",
              LitStr(StrFromTo(chars, sc.start.idx + 1, p.idx - 1)))

\* Scanner::string
ScanString(chars, sc) ==
  LET p == StringLoop(chars, sc.pos)
      s1 == [sc EXCEPT !.pos = p]
  IN IF IsEof(chars, p)
     THEN LexError(s1, "Unterminated string.")
     ELSE AddToken(chars, s1, "Literal",
                   LitStr(StrFromTo(chars, sc.start.idx + 1, p.idx - 1)))

RECURSIVE DigitLoop(_, _)
\* while self.stream.peek().is_digit(10) { self.stream.next(); }
DigitLoop(chars, p) ==
  IF IsDigit(Peek(chars, p)) THEN DigitLoop(chars, Advance(chars, p)) ELSE p

\* the lookahead of Scanner::number that decides whether a '.' belongs to the number
FractionAhead(chars, p) == Peek(chars, p) = "." /\ IsDigit(PeekN(chars, p, 2))

\* Scanner::number; parse().unwrap() panics on a text that is no float
ScanNumber(chars, sc) ==
  LET p1 == DigitLoop(chars, sc.pos)
      p2 == IF FractionAhead(chars, p1)
            THEN DigitLoop(chars, Advance(chars, Advance(chars, p1)))
            ELSE p1
      parsed == ParseF64(StrFromTo(chars, sc.start.idx, p2.idx))
  IN IF parsed.ok
     THEN AddToken(chars, [sc EXCEPT !.pos = p2], "Literal", parsed.lit)
     ELSE [sc EXCEPT !.pos = p2, !.res = "panic"]

RECURSIVE IdentLoop(_, _)
\* while self.stream.peek().is_alphanumeric() { self.stream.next(); }
IdentLoop(chars, p) ==
  IF IsAlphanumeric(Peek(chars, p)) THEN IdentLoop(chars, Advance(chars, p)) ELSE p

\* Scanner::identifier
ScanIdentifier(chars, sc) ==
  LET p == IdentLoop(chars, sc.pos)
      ident == StrFromTo(chars, sc.start.idx, p.idx)
  IN AddToken(chars, [sc EXCEPT !.pos = p], KeywordType(ident), KeywordLit(ident))

\* the end of Scanner::scan_tokens: the EOF token at the stream's position
EofToken(p) == Token("EOF", <<>>, p, NoLit)

\* a '/' arm that ends the token sequence itself when a comment runs to the end of
\* the text: the scanner the one-EOF rule of C7 excludes
ScanSlashEndsInput(chars, sc) ==
  LET p == MatchNext(chars, sc.pos, "/")
  IN IF p # sc.pos
     THEN IF IsEof(chars, CommentLoop(chars, p))
          THEN [sc EXCEPT !.pos = CommentLoop(chars, p),
                          !.tokens = Append(sc.tokens, EofToken(CommentLoop(chars, p)))]
          ELSE [sc EXCEPT !.pos = CommentLoop(chars, p)]
     ELSE AddToken(chars, sc, "Slash", NoLit)

\* the '/' arm of scan_token
ScanSlash(chars, sc) ==
  LET p == MatchNext(chars, sc.pos, "/")
  IN IF p # sc.pos
     THEN [sc EXCEPT !.pos = CommentLoop(chars, p)]
     ELSE AddToken(chars, sc, "Slash", NoLit)

\* Scanner::scan_token, c already read by CharStream::next
ScanToken(chars, sc, c) ==
  CASE c = "(" -> AddToken(chars, sc, "LeftParen", NoLit)
    [] c = ")" -> AddToken(chars, sc, "RightParen", NoLit)
    [] c = "{" -> AddToken(chars, sc, "LeftBrace", NoLit)
    [] c = "}" -> AddToken(chars, sc, "RightBrace", NoLit)
    [] c = "," -> AddToken(chars, sc, "Comma", NoLit)
    [] c = "." -> AddToken(chars, sc, "Dot", NoLit)
    [] c = "-" -> AddToken(chars, sc, "Minus", NoLit)
    [] c = "+" -> AddToken(chars, sc, "Plus", NoLit)
    [] c = ";" -> AddToken(chars, sc, "Semicolon", NoLit)
    [] c = "*" -> AddToken(chars, sc, "Star", NoLit)
    [] c = "!" -> TwoChar(chars, sc, "BangEqual", "Bang")
    [] c = "=" -> TwoChar(chars, sc, "EqualEqual", "Equal")
    [] c = "<" -> TwoChar(chars, sc, "LessEqual", "Less")
    [] c = ">" -> TwoChar(chars, sc, "GreaterEqual", "Greater")
    [] c = "/" -> ScanSlash(chars, sc)
    [] c = "\"" -> ScanString(chars, sc)
    [] c \in {" ", "\r", "\t", "\n"} -> [sc EXCEPT !.start = sc.pos]
    [] OTHER -> IF IsDigit(c) THEN ScanNumber(chars, sc)
                ELSE IF IsAlphanumeric(c) THEN ScanIdentifier(chars, sc)
                ELSE LexError(sc, "Unexpected character")




-----------------------------------------------------------------------------
(* Errors (err.rs) *)

\* Option::None of tokens.get
NoTok == Token("None", <<>>, InitPos, NoLit)

IsNone(tok) == tok.ty = "None"

NoErr == [kind |-> "None", token |-> NoTok, pos |-> InitPos, message |-> "none"]
\* LoxError::parse
ParseError(token, message) ==
  [kind |-> "ParseError", token |-> token, pos |-> token.pos, message |-> message]
\* LoxError::lex
LexErrorValue(pos, message) ==
  [kind |-> "LexError", token |-> NoTok, pos |-> pos, message |-> message]
\* LoxError::runtime
RuntimeError(token, message) ==
  [kind |-> "RuntimeError", token |-> token, pos |-> token.pos, message |-> message]
\* LoxError::runtime with the message of the arity check of a call, format!("Expected
\* {} arguments but got {}.", function.arity(), args.len()): the two counts it states
ArityError(token, expected, got) ==
  [kind |-> "RuntimeError", token |-> token, pos |-> token.pos,
   message |-> "Expected N arguments but got M.", expected |-> expected, got |-> got]
\* From<NoneError> for LoxError: what `?` makes of an Option::None
OtherError ==
  [kind |-> "Other", token |-> NoTok, pos |-> InitPos, message |-> "Unexpected None"]

-----------------------------------------------------------------------------
(* Syntax trees (expr.rs) *)

NoNode == [k |-> "None"]

ExprAssign(name, value) == [k |-> "Assign", name |-> name, value |-> value]
ExprBinary(left, op, right) == [k |-> "Binary", left |-> left, op |-> op, right |-> right]
ExprCall(callee, paren, arguments) ==
  [k |-> "Call", callee |-> callee, paren |-> paren, arguments |-> arguments]
ExprGrouping(expr) == [k |-> "Grouping", expr |-> expr]
ExprLit(lit) == [k |-> "Literal", lit |-> lit]
ExprLogical(left, op, right) == [k |-> "Logical", left |-> left, op |-> op, right |-> right]
ExprUnary(op, right) == [k |-> "Unary", op |-> op, right |-> right]
ExprVar(name) == [k |-> "Variable", name |-> name]

StmtBlock(stmts) == [k |-> "Block", statements |-> stmts]
StmtExpression(expr) == [k |-> "Expression", expr |-> expr]
StmtFunction(name, params, body) ==
  [k |-> "Function", name |-> name, params |-> params, body |-> body]
\* else_branch is NoNode for Option::None
StmtIf(condition, then_branch, else_branch) ==
  [k |-> "If", condition |-> condition, then_branch |-> then_branch,
   else_branch |-> else_branch]
StmtPrint(expr) == [k |-> "Print", expr |-> expr]
\* init is NoNode for Option::None
StmtVar(name, init) == [k |-> "Var", name |-> name, init |-> init]
StmtWhile(condition, body) == [k |-> "While", condition |-> condition, body |-> body]

-----------------------------------------------------------------------------
(* Parser (parser.rs).  A parser state is [cur, reports, events]; the token  *)
(* vector is passed beside it.  A parse function answers [p, ok, v, e]: the  *)
(* state afterwards and the LoxResult (v when Ok, e when Err).               *)

POk(p, v) == [p |-> p, ok |-> TRUE, v |-> v, e |-> NoErr]
PErr(p, e) == [p |-> p, ok |-> FALSE, v |-> NoNode, e |-> e]

\* Parser::peek
PeekTok(toks, p) == IF p.cur < Len(toks) THEN toks[p.cur + 1] ELSE NoTok
\* Parser::previous
Previous(toks, p) ==
  IF p.cur >= 1 /\ p.cur - 1 < Len(toks) THEN toks[p.cur] ELSE NoTok
\* Parser::at_end
AtEnd(toks, p) == PeekTok(toks, p).ty = "EOF"
\* Parser::check
Check(toks, p, tt) ==
  ~AtEnd(toks, p) /\ PeekTok(toks, p).ty = tt
\* an advance that moves the cursor also when it stands at the end-marker: the parser
\* the cursor rule of C23 excludes
AdvanceTokAlways(toks, p) == [p EXCEPT !.cur = p.cur + 1]
\* Parser::advance: the state afterwards (the token it answers is PeekTok before)
AdvanceTok(toks, p) == IF ~AtEnd(toks, p) THEN [p EXCEPT !.cur = p.cur + 1] ELSE p
\* Parser::eat: the state afterwards; it ate iff the cursor moved
Eat(toks, p, tt) == IF Check(toks, p, tt) THEN AdvanceTok(toks, p) ELSE p
\* Parser::eat_m
EatM(toks, p, tts) ==
  IF \E tt \in tts : Check(toks, p, tt) THEN AdvanceTok(toks, p) ELSE p

\* Lox::report
Report(reps, err) == Append(reps, err)

\* LoxError::parse constructed without Parser::error: nothing is reported
Unreported(p, token, message) ==
  [p EXCEPT !.events = Append(p.events, [ev |-> "raise", cur |-> p.cur,
                                         err |-> ParseError(token, message)])]

\* Parser::error: constructs the error and reports it
ErrorAt(p, token, message) ==
  LET err == ParseError(token, message)
  IN [p EXCEPT !.reports = Report(p.reports, err),
               !.events = p.events \o <<[ev |-> "raise", cur |-> p.cur, err |-> err],
                                         [ev |-> "report", cur |-> p.cur, err |-> err]>>]

\* Parser::eat_or
EatOr(toks, p, tt, message) ==
  IF Check(toks, p, tt) THEN POk(AdvanceTok(toks, p), NoNode)
  ELSE IF IsNone(PeekTok(toks, p)) THEN PErr(p, OtherError)
  ELSE PErr(ErrorAt(p, PeekTok(toks, p), message),
            ParseError(PeekTok(toks, p), message))

SyncKeywords == {"Class", "Fun", "Var", "For", "If", "While", "Print", "Return"}

RECURSIVE SynchronizeLoop(_, _)
\* the while loop of Parser::synchronize
SynchronizeLoop(toks, p) ==
  IF AtEnd(toks, p) THEN POk(p, NoNode)
  ELSE IF IsNone(Previous(toks, p)) THEN PErr(p, OtherError)
  ELSE IF Previous(toks, p).ty = "Semicolon" THEN POk(p, NoNode)
  ELSE IF IsNone(PeekTok(toks, p)) THEN PErr(p, OtherError)
  ELSE IF PeekTok(toks, p).ty \in SyncKeywords THEN POk(p, NoNode)
  ELSE SynchronizeLoop(toks, AdvanceTok(toks, p))

\* Parser::synchronize
Synchronize(toks, p) ==
  LET p1 == [p EXCEPT !.events = Append(p.events, [ev |-> "sync", cur |-> p.cur,
                                                    err |-> NoErr])]
  IN [SynchronizeLoop(toks, AdvanceTok(toks, p1)) EXCEPT
        !.p.events = Append(@, [ev |-> "resume",
                                cur |-> SynchronizeLoop(toks, AdvanceTok(toks, p1)).p.cur,
                                err |-> NoErr])]


\* the argument cap of Parser::finish_call
MaxArgs == 8

RECURSIVE Rule(_, _, _, _)

\* Parser::primary: advance first, then match on the token advanced over
Primary(toks, p) ==
  LET tok == PeekTok(toks, p)
      p1 == AdvanceTok(toks, p)
  IN IF IsNone(tok) THEN PErr(p1, OtherError)
     ELSE IF tok.ty = "Ident"
     THEN IF IsNone(Previous(toks, p1)) THEN PErr(p1, OtherError)
          ELSE POk(p1, ExprVar(Previous(toks, p1)))
     ELSE IF tok.ty = "Literal" THEN POk(p1, ExprLit(tok.lit))
     ELSE IF tok.ty = "LeftParen"
     THEN LET r == Rule("Expression", toks, p1, NoNode)
          IN IF ~r.ok THEN r
             ELSE LET c == EatOr(toks, r.p, "RightParen", "Expected ')' after expression.")
                  IN IF ~c.ok THEN c ELSE POk(c.p, ExprGrouping(r.v))
     ELSE IF IsNone(PeekTok(toks, p1)) THEN PErr(p1, OtherError)
     ELSE PErr(ErrorAt(p1, PeekTok(toks, p1), "Expected expression."),
               ParseError(PeekTok(toks, p1), "Expected expression."))

\* the do-while of Parser::finish_call, args the arguments so far
ArgumentsLoop(toks, p, args) ==
  IF Len(args) >= MaxArgs
  THEN IF IsNone(PeekTok(toks, p)) THEN PErr(p, OtherError)
       ELSE PErr(ErrorAt(p, PeekTok(toks, p), "Cannot have more than 8 arguments."),
                 ParseError(PeekTok(toks, p), "Cannot have more than 8 arguments."))
  ELSE LET r == Rule("Expression", toks, p, NoNode)
       IN IF ~r.ok THEN r
          ELSE IF Check(toks, r.p, "Comma")
          THEN Rule("ArgumentsLoop", toks, AdvanceTok(toks, r.p), Append(args, r.v))
          ELSE POk(r.p, Append(args, r.v))

\* Parser::finish_call
FinishCall(toks, p, callee) ==
  LET a == IF ~Check(toks, p, "RightParen") THEN Rule("ArgumentsLoop", toks, p, <<>>)
           ELSE POk(p, <<>>)
  IN IF ~a.ok THEN a
     ELSE LET c == EatOr(toks, a.p, "RightParen", "Expect ')' after arguments")
          IN IF ~c.ok THEN c
             ELSE IF IsNone(Previous(toks, c.p)) THEN PErr(c.p, OtherError)
             ELSE POk(c.p, ExprCall(callee, Previous(toks, c.p), a.v))

\* the loop of Parser::call
CallLoop(toks, p, expr) ==
  IF Check(toks, p, "LeftParen")
  THEN LET r == Rule("FinishCall", toks, AdvanceTok(toks, p), expr)
       IN IF ~r.ok THEN r ELSE Rule("CallLoop", toks, r.p, r.v)
  ELSE POk(p, expr)

\* Parser::call
Call(toks, p) ==
  LET r == Rule("Primary", toks, p, NoNode)
  IN IF ~r.ok THEN r ELSE Rule("CallLoop", toks, r.p, r.v)

\* Parser::unary
Unary(toks, p) ==
  LET p1 == EatM(toks, p, {"Bang", "Minus"})
  IN IF p1.cur # p.cur
     THEN IF IsNone(Previous(toks, p1)) THEN PErr(p1, OtherError)
          ELSE LET r == Rule("Unary", toks, p1, NoNode)
               IN IF ~r.ok THEN r ELSE POk(r.p, ExprUnary(Previous(toks, p1), r.v))
     ELSE Rule("Call", toks, p, NoNode)

MultiplicationOps == {"Slash", "Star"}

MultiplicationLoop(toks, p, expr) ==
  LET p1 == EatM(toks, p, MultiplicationOps)
  IN IF p1.cur = p.cur THEN POk(p, expr)
     ELSE LET r == Rule("Unary", toks, p1, NoNode)
          IN IF ~r.ok THEN r
             ELSE Rule("MultiplicationLoop", toks, r.p, ExprBinary(expr, Previous(toks, p1), r.v))

\* Parser::multiplication
Multiplication(toks, p) ==
  LET r == Rule("Unary", toks, p, NoNode)
  IN IF ~r.ok THEN r ELSE Rule("MultiplicationLoop", toks, r.p, r.v)

AdditionOps == {"Minus", "Plus"}

AdditionLoop(toks, p, expr) ==
  LET p1 == EatM(toks, p, AdditionOps)
  IN IF p1.cur = p.cur THEN POk(p, expr)
     ELSE LET r == Rule("Multiplication", toks, p1, NoNode)
          IN IF ~r.ok THEN r
             ELSE Rule("AdditionLoop", toks, r.p, ExprBinary(expr, Previous(toks, p1), r.v))

\* Parser::addition
Addition(toks, p) ==
  LET r == Rule("Multiplication", toks, p, NoNode)
  IN IF ~r.ok THEN r ELSE Rule("AdditionLoop", toks, r.p, r.v)

ComparisonOps == {"Greater", "GreaterEqual", "Less", "LessEqual"}

ComparisonLoop(toks, p, expr) ==
  LET p1 == EatM(toks, p, ComparisonOps)
  IN IF p1.cur = p.cur THEN POk(p, expr)
     ELSE LET r == Rule("Addition", toks, p1, NoNode)
          IN IF ~r.ok THEN r
             ELSE Rule("ComparisonLoop", toks, r.p, ExprBinary(expr, Previous(toks, p1), r.v))

\* Parser::comparison
Comparison(toks, p) ==
  LET r == Rule("Addition", toks, p, NoNode)
  IN IF ~r.ok THEN r ELSE Rule("ComparisonLoop", toks, r.p, r.v)

\* the token types Parser::equality hands to eat_m
EqualityOps == {"Bang", "BangEqual"}

EqualityLoop(toks, p, expr) ==
  LET p1 == EatM(toks, p, EqualityOps)
  IN IF p1.cur = p.cur THEN POk(p, expr)
     ELSE LET r == Rule("Comparison", toks, p1, NoNode)
          IN IF ~r.ok THEN r
             ELSE Rule("EqualityLoop", toks, r.p, ExprBinary(expr, Previous(toks, p1), r.v))

\* Parser::equality
Equality(toks, p) ==
  LET r == Rule("Comparison", toks, p, NoNode)
  IN IF ~r.ok THEN r ELSE Rule("EqualityLoop", toks, r.p, r.v)

AndLoop(toks, p, expr) ==
  IF ~Check(toks, p, "And") THEN POk(p, expr)
  ELSE LET p1 == AdvanceTok(toks, p)
           r == Rule("And", toks, p1, NoNode)
       IN IF ~r.ok THEN r
          ELSE Rule("AndLoop", toks, r.p, ExprLogical(expr, Previous(toks, p1), r.v))

\* Parser::and
And(toks, p) ==
  LET r == Rule("Equality", toks, p, NoNode)
  IN IF ~r.ok THEN r ELSE Rule("AndLoop", toks, r.p, r.v)

OrLoop(toks, p, expr) ==
  IF ~Check(toks, p, "Or") THEN POk(p, expr)
  ELSE LET p1 == AdvanceTok(toks, p)
           r == Rule("Or", toks, p1, NoNode)
       IN IF ~r.ok THEN r
          ELSE Rule("OrLoop", toks, r.p, ExprLogical(expr, Previous(toks, p1), r.v))

\* Parser::or
Or(toks, p) ==
  LET r == Rule("And", toks, p, NoNode)
  IN IF ~r.ok THEN r ELSE Rule("OrLoop", toks, r.p, r.v)

\* Parser::assignment
Assignment(toks, p) ==
  LET r == Rule("Or", toks, p, NoNode)
  IN IF ~r.ok THEN r
     ELSE IF ~Check(toks, r.p, "Equal") THEN r
     ELSE LET p1 == AdvanceTok(toks, r.p)
              equals == Previous(toks, p1)
              v == Rule("Assignment", toks, p1, NoNode)
          IN IF ~v.ok THEN v
             ELSE IF r.v.k = "Variable" THEN POk(v.p, ExprAssign(r.v.name, v.v))
             ELSE POk(ErrorAt(v.p, equals, "Invalid assignment target."), r.v)

\* Parser::expression
Expression(toks, p) == Rule("Assignment", toks, p, NoNode)

\* Parser::expression_statement
ExpressionStatement(toks, p) ==
  LET r == Rule("Expression", toks, p, NoNode)
  IN IF ~r.ok THEN r
     ELSE LET c == EatOr(toks, r.p, "Semicolon", "Expect ';' after expression")
          IN IF ~c.ok THEN c ELSE POk(c.p, StmtExpression(r.v))

\* Parser::print_statement
PrintStatement(toks, p) ==
  LET r == Rule("Expression", toks, p, NoNode)
  IN IF ~r.ok THEN r
     ELSE LET c == EatOr(toks, r.p, "Semicolon", "Expect ';' after value.")
          IN IF ~c.ok THEN c ELSE POk(c.p, StmtPrint(r.v))

\* Parser::var_declaration
VarDeclaration(toks, p) ==
  LET tok == PeekTok(toks, p)
  IN IF IsNone(tok) THEN PErr(p, OtherError)
     ELSE IF tok.ty # "Ident"
     THEN PErr(Unreported(p, tok, "Expected variable name."),
               ParseError(tok, "Expected variable name."))
     ELSE LET p1 == AdvanceTok(toks, p)
              i == IF Check(toks, p1, "Equal")
                   THEN Rule("Expression", toks, AdvanceTok(toks, p1), NoNode)
                   ELSE POk(p1, NoNode)
          IN IF ~i.ok THEN i
             ELSE LET c == EatOr(toks, i.p, "Semicolon",
                                 "Expected ';' after variable declaration")
                  IN IF ~c.ok THEN c ELSE POk(c.p, StmtVar(tok, i.v))

\* Parser::while_statement; the results of both eat_or calls are dropped
WhileStatement(toks, p) ==
  LET p1 == EatOr(toks, p, "LeftParen", "Expect '(' after 'while'.").p
      c == Rule("Expression", toks, p1, NoNode)
  IN IF ~c.ok THEN c
     ELSE LET p2 == EatOr(toks, c.p, "RightParen", "Expect ')' after while condition.").p
              b == Rule("Statement", toks, p2, NoNode)
          IN IF ~b.ok THEN b ELSE POk(b.p, StmtWhile(c.v, b.v))

\* Parser::if_statement; the results of both eat_or calls are dropped
IfStatement(toks, p) ==
  LET p1 == EatOr(toks, p, "LeftParen", "Expect '(' after 'if'.").p
      c == Rule("Expression", toks, p1, NoNode)
  IN IF ~c.ok THEN c
     ELSE LET p2 == EatOr(toks, c.p, "RightParen", "Expect ')' after if condition.").p
              t == Rule("Statement", toks, p2, NoNode)
          IN IF ~t.ok THEN t
             ELSE IF ~Check(toks, t.p, "Else") THEN POk(t.p, StmtIf(c.v, t.v, NoNode))
             ELSE LET e == Rule("Statement", toks, AdvanceTok(toks, t.p), NoNode)
                  IN IF ~e.ok THEN e ELSE POk(e.p, StmtIf(c.v, t.v, e.v))

\* the while loop of Parser::block: statements.push(self.declaration()??)
BlockLoop(toks, p, stmts) ==
  IF ~Check(toks, p, "RightBrace") /\ ~AtEnd(toks, p)
  THEN LET d == Rule("Declaration", toks, p, NoNode)
       IN IF ~d.ok THEN d
          ELSE IF d.v.k = "None" THEN PErr(d.p, OtherError)
          ELSE Rule("BlockLoop", toks, d.p, Append(stmts, d.v))
  ELSE POk(p, stmts)

\* Parser::block
Block(toks, p) ==
  LET b == Rule("BlockLoop", toks, p, <<>>)
  IN IF ~b.ok THEN b
     ELSE LET c == EatOr(toks, b.p, "RightBrace", "Expected '}' after block.")
          IN IF ~c.ok THEN c ELSE POk(c.p, b.v)

\* the statement parser Parser::statement calls after eating a token of type tt
StatementFor(tt, toks, p) ==
  CASE tt = "For" -> Rule("IfStatement", toks, p, NoNode)
    [] tt = "If" -> Rule("IfStatement", toks, p, NoNode)
    [] tt = "Print" -> Rule("PrintStatement", toks, p, NoNode)
    [] tt = "While" -> Rule("WhileStatement", toks, p, NoNode)
    [] tt = "LeftBrace" -> LET b == Rule("Block", toks, p, NoNode)
                           IN IF ~b.ok THEN b ELSE POk(b.p, StmtBlock(b.v))

\* Parser::statement
Statement(toks, p) ==
  IF \E tt \in {"For", "If", "Print", "While", "LeftBrace"} : Check(toks, p, tt)
  THEN StatementFor(PeekTok(toks, p).ty, toks, AdvanceTok(toks, p))
  ELSE Rule("ExpressionStatement", toks, p, NoNode)

\* Parser::declaration: v is the statement, NoNode for Ok(None)
Declaration(toks, p) ==
  LET r == IF Check(toks, p, "Var") THEN Rule("VarDeclaration", toks, AdvanceTok(toks, p), NoNode)
           ELSE Rule("Statement", toks, p, NoNode)
  IN IF r.ok THEN r
     ELSE LET s == Synchronize(toks, r.p)
          IN IF ~s.ok THEN s ELSE POk(s.p, NoNode)


\* the call of one parse function from another: every such call goes through this
\* operator, which only hands the arguments on (x is the third argument, if any)
Rule(name, toks, p, x) ==
  CASE name = "Declaration" -> Declaration(toks, p)
    [] name = "Statement" -> Statement(toks, p)
    [] name = "BlockLoop" -> BlockLoop(toks, p, x)
    [] name = "IfStatement" -> IfStatement(toks, p)
    [] name = "Block" -> Block(toks, p)
    [] name = "WhileStatement" -> WhileStatement(toks, p)
    [] name = "Expression" -> Expression(toks, p)
    [] name = "Assignment" -> Assignment(toks, p)
    [] name = "Or" -> Or(toks, p)
    [] name = "OrLoop" -> OrLoop(toks, p, x)
    [] name = "And" -> And(toks, p)
    [] name = "AndLoop" -> AndLoop(toks, p, x)
    [] name = "Equality" -> Equality(toks, p)
    [] name = "EqualityLoop" -> EqualityLoop(toks, p, x)
    [] name = "Comparison" -> Comparison(toks, p)
    [] name = "ComparisonLoop" -> ComparisonLoop(toks, p, x)
    [] name = "Addition" -> Addition(toks, p)
    [] name = "AdditionLoop" -> AdditionLoop(toks, p, x)
    [] name = "Multiplication" -> Multiplication(toks, p)
    [] name = "MultiplicationLoop" -> MultiplicationLoop(toks, p, x)
    [] name = "Unary" -> Unary(toks, p)
    [] name = "Call" -> Call(toks, p)
    [] name = "CallLoop" -> CallLoop(toks, p, x)
    [] name = "FinishCall" -> FinishCall(toks, p, x)
    [] name = "ArgumentsLoop" -> ArgumentsLoop(toks, p, x)
    [] name = "Primary" -> Primary(toks, p)
    [] name = "ExpressionStatement" -> ExpressionStatement(toks, p)
    [] name = "PrintStatement" -> PrintStatement(toks, p)
    [] name = "VarDeclaration" -> VarDeclaration(toks, p)

-----------------------------------------------------------------------------
(* Values (lit.rs) *)

\* Function::new_native
NativeFunction(arity, id) ==
  [t |-> "Func", arity |-> arity, native |-> TRUE, id |-> id,
   params |-> <<>>, body |-> <<>>, name |-> <<"n", "a", "t", "i", "v", "e">>]
\* Function::new
UserFunction(name, params, body) ==
  [t |-> "Func", arity |-> Len(params), native |-> FALSE, id |-> 0,
   params |-> params, body |-> body, name |-> name]

RECURSIVE NatDigits(_)
\* the decimal digits of a natural number
NatDigits(n) ==
  LET d == <<"0", "1", "2", "3", "4", "5", "6", "7", "8", "9">>[(n % 10) + 1]
  IN IF n < 10 THEN <<d>> ELSE Append(NatDigits(n \div 10), d)

RECURSIVE PadZeros(_, _)
PadZeros(ds, k) == IF Len(ds) >= k THEN ds ELSE PadZeros(<<"0">> \o ds, k)

Abs(n) == IF n < 0 THEN -n ELSE n

\* impl Display for Lit
Display(lit) ==
  CASE lit.t = "Nil" -> KW_nil
    [] lit.t = "Bool" -> IF lit.b THEN KW_true ELSE KW_false
    [] lit.t = "Str" -> <<"\"">> \o lit.s \o <<"\"">>
    [] lit.t = "Func" -> <<"<", "f", "n", " ">> \o lit.name \o <<">">>
    [] lit.t = "Num" ->
         (IF lit.n < 0 THEN <<"-">> ELSE <<>>)
         \o NatDigits(Abs(lit.n) \div Pow10(lit.k))
         \o (IF lit.k = 0 THEN <<>>
             ELSE <<".">> \o PadZeros(NatDigits(Abs(lit.n) % Pow10(lit.k)), lit.k))

\* PartialEq of Lit (derived): same variant and equal contents
LitEq(a, b) ==
  IF a.t # b.t THEN FALSE
  ELSE CASE a.t = "Nil" -> TRUE
         [] a.t = "Bool" -> a.b = b.b
         [] a.t = "Str" -> a.s = b.s
         [] a.t = "Num" -> a.n = b.n /\ a.k = b.k
         [] a.t = "Func" -> /\ a.arity = b.arity /\ a.name = b.name
                            /\ a.native = b.native
                            /\ IF a.native THEN a.id = b.id
                               ELSE a.params = b.params /\ a.body = b.body

\* the numerators of two numbers brought to one scale
Scaled(a, b) ==
  LET k == IF a.k > b.k THEN a.k ELSE b.k
  IN [a |-> a.n * Pow10(k - a.k), b |-> b.n * Pow10(k - b.k), k |-> k]

-----------------------------------------------------------------------------
(* Environment (interpreter.rs).  The chain self.environment -> enclosing -> *)
(* ... is a sequence of scopes, the active one first.  A scope is            *)
(* [id, values]: id tells scopes apart (the identity of the Rust object),    *)
(* values maps a name (Token.raw) to its value.                              *)

EmptyValues == [n \in {} |-> LitNil]

\* Environment::new(None)
NewEnvironment(id) == [id |-> id, values |-> EmptyValues]

\* HashMap::insert
Insert(values, name, value) ==
  [n \in DOMAIN values \cup {name} |-> IF n = name THEN value ELSE values[n]]

\* a define that binds in the outermost scope of the chain: the environment the
\* block-scope rule of C15 excludes
DefineOutermost(env, name, value) ==
  [env EXCEPT ![Len(env)].values = Insert(@, name, value)]

\* Environment::define, on the active scope of the chain
Define(env, name, value) == [env EXCEPT ![1].values = Insert(@, name, value)]

\* the index of the innermost scope of the chain that binds name, 0 when none does
Binder(env, name) ==
  IF \E i \in 1..Len(env) : name \in DOMAIN env[i].values
  THEN CHOOSE i \in 1..Len(env) :
         /\ name \in DOMAIN env[i].values
         /\ \A j \in 1..(i - 1) : name \notin DOMAIN env[j].values
  ELSE 0

\* an assign that writes the binding into the active scope whichever scope binds the
\* name: the environment the one-binding rule of C16 excludes
AssignActive(env, name, value) == [env EXCEPT ![1].values = Insert(@, name, value)]

\* Environment::assign: the chain afterwards (unchanged when no scope binds name)
Assign(env, name, value) ==
  IF Binder(env, name) = 0 THEN env
  ELSE [env EXCEPT ![Binder(env, name)].values = Insert(@, name, value)]

\* Environment::get, when some scope binds name
Lookup(env, name) == env[Binder(env, name)].values[name]

\* mem::swap + Environment::set_enclosing at the start of execute_block
PushScope(env, scope) == <<scope>> \o env

\* Environment::take_enclosing at the end of execute_block
PopScope(env) == Tail(env)


-----------------------------------------------------------------------------
(* Interpreter (interpreter.rs).  An interpreter state is                    *)
(*   env     the chain of self.environment                                   *)
(*   out     the lines written by println!                                   *)
(*   time    the clock the native function reads                             *)
(*   nextId  the id of the next scope created                                *)
(*   fuel    loop iterations and calls left to the statement being executed  *)
(*   execs   calls of Interpreter::execute so far                            *)
(*   errs    runtime errors raised so far                                    *)
(*   late    calls of Interpreter::execute begun after the first of them     *)
(*   blocks  one entry per return of execute_block: the ids of the chain on  *)
(*           entry and on return                                             *)
(* An evaluation answers [st, ok, v, e] like a parse function.  An e of kind *)
(* "Fuel" stands for an evaluation that does not return within MaxFuel.      *)

IOk(st, v) == [st |-> st, ok |-> TRUE, v |-> v, e |-> NoErr]
IErr(st, e) == [st |-> st, ok |-> FALSE, v |-> LitNil, e |-> e]

\* Err(LoxError::runtime(..)) where the interpreter raises it
Raise(st, token, message) ==
  IErr([st EXCEPT !.errs = @ + 1], RuntimeError(token, message))

FuelError == [kind |-> "Fuel", token |-> NoTok, pos |-> InitPos, message |-> "no return"]
OutOfFuel(st) == IErr(st, FuelError)

ChainIds(env) == [i \in 1..Len(env) |-> env[i].id]

\* Interpreter::is_truthy
IsTruthy(lit) ==
  CASE lit.t = "Nil" -> FALSE
    [] lit.t = "Bool" -> lit.b
    [] OTHER -> TRUE

\* Interpreter::is_equal
IsEqual(a, b) ==
  IF a.t = "Nil" /\ b.t = "Nil" THEN TRUE
  ELSE IF a.t = "Nil" THEN FALSE
  ELSE IF b.t = "Nil" THEN FALSE
  ELSE LitEq(a, b)

\* the arithmetic and comparison closures handed to check_number_operands
NumberOp(ty, a, b) ==
  LET s == Scaled(a, b)
  IN CASE ty = "Greater" -> LitBool(s.a > s.b)
       [] ty = "GreaterEqual" -> LitBool(s.a >= s.b)
       [] ty = "Less" -> LitBool(s.a < s.b)
       [] ty = "LessEqual" -> LitBool(s.a <= s.b)
       [] ty = "Minus" -> NumNorm(s.a - s.b, s.k)
       [] ty = "Plus" -> NumNorm(s.a + s.b, s.k)
       [] ty = "Star" -> NumNorm(a.n * b.n, a.k + b.k)
       \* f64 division, kept to the quotients that are whole numbers
       [] ty = "Slash" -> IF s.b # 0 /\ s.a % s.b = 0 THEN LitNum(s.a \div s.b)
                          ELSE [t |-> "Num", n |-> s.a, k |-> s.k, over |-> s.b]

\* Interpreter::check_number_operands
CheckNumberOperands(st, op, a, b) ==
  IF a.t = "Num" /\ b.t = "Num" THEN IOk(st, NumberOp(op.ty, a, b))
  ELSE Raise(st, op, "Operands must be a numbers")

\* the match on op.ty of the Binary arm, both operands evaluated
BinaryOp(st, op, left, right) ==
  CASE op.ty \in {"Greater", "GreaterEqual", "Less", "LessEqual", "Minus", "Slash", "Star"}
         -> CheckNumberOperands(st, op, left, right)
    [] op.ty = "BangEqual" -> IOk(st, LitBool(~IsEqual(left, right)))
    [] op.ty = "EqualEqual" -> IOk(st, LitBool(IsEqual(left, right)))
    [] op.ty = "Plus" ->
         IF left.t = "Num" /\ right.t = "Num" THEN IOk(st, NumberOp("Plus", left, right))
         ELSE IF left.t = "Str" /\ right.t = "Str" THEN IOk(st, LitStr(left.s \o right.s))
         ELSE Raise(st, op, "Operands must be numbers or strings")
    [] OTHER -> Raise(st, op, "Unreachable")

\* the match on op.ty of the Unary arm
UnaryOp(st, op, right) ==
  CASE op.ty = "Bang" -> IOk(st, LitBool(~IsTruthy(right)))
    [] op.ty = "Minus" -> IF right.t = "Num" THEN IOk(st, NumNorm(-right.n, right.k))
                          ELSE Raise(st, op, "Operand must be a number")
    [] OTHER -> Raise(st, op, "Unreachable")

\* the body of the native function clock
Clock(st) == IOk([st EXCEPT !.time = @ + 1], LitNum(st.time))

RECURSIVE BindParams(_, _, _)
\* the for loop of Function::call: environment.define(params.get(i)?.raw, arg)
BindParams(values, params, args) ==
  IF args = <<>> THEN values
  ELSE BindParams(Insert(values, Head(params).raw, Head(args)), Tail(params), Tail(args))

RECURSIVE Run(_, _, _, _)

\* the loop of execute_block: run the statements, stop at the first Err
BlockStatements(stmts, st) ==
  IF stmts = <<>> THEN IOk(st, LitNil)
  ELSE LET r == Run("Execute", Head(stmts), NoNode, st)
       IN IF ~r.ok THEN r ELSE Run("BlockStatements", Tail(stmts), NoNode, r.st)

\* an execute_block that returns at the first Err of a statement without taking the
\* enclosing environment back: the block the restore rule of C2 excludes
ExecuteBlockNoRestore(stmts, values, st) ==
  LET scope == [id |-> st.nextId, values |-> values]
      s1 == [st EXCEPT !.env = PushScope(st.env, scope), !.nextId = @ + 1]
      r == Run("BlockStatements", stmts, NoNode, s1)
      s2 == IF r.ok THEN [r.st EXCEPT !.env = PopScope(r.st.env)] ELSE r.st
      s3 == [s2 EXCEPT !.blocks = Append(@, [entry |-> ChainIds(st.env),
                                             exit |-> ChainIds(s2.env)])]
  IN [r EXCEPT !.st = s3]

\* Interpreter::execute_block, values the bindings of the environment handed in
ExecuteBlock(stmts, values, st) ==
  LET scope == [id |-> st.nextId, values |-> values]
      s1 == [st EXCEPT !.env = PushScope(st.env, scope), !.nextId = @ + 1]
      r == Run("BlockStatements", stmts, NoNode, s1)
      s2 == [r.st EXCEPT !.env = PopScope(r.st.env)]
      s3 == [s2 EXCEPT !.blocks = Append(@, [entry |-> ChainIds(st.env),
                                             exit |-> ChainIds(s2.env)])]
  IN [r EXCEPT !.st = s3]

\* Function::call
CallFunction(function, args, st) ==
  IF function.native THEN Clock(st)
  ELSE IF st.fuel = 0 THEN OutOfFuel(st)
  ELSE LET r == Run("ExecuteBlock", function.body, BindParams(EmptyValues, function.params, args), [st EXCEPT !.fuel = @ - 1])
       IN IF ~r.ok /\ r.e.kind = "Fuel" THEN r
          \* the result of execute_block is dropped
          ELSE IOk(r.st, LitNil)

\* a call that evaluates its arguments from the last to the first: the interpreter
\* the left-to-right rule of C17 excludes
EvaluateArgsReversed(arguments, args, st) ==
  IF arguments = <<>> THEN IOk(st, args)
  ELSE LET r == Run("Evaluate", arguments[Len(arguments)], NoNode, st)
       IN IF ~r.ok THEN r
          ELSE Run("EvaluateArgs", SubSeq(arguments, 1, Len(arguments) - 1),
                   <<r.v>> \o args, r.st)

\* the for loop of the Call arm: args.push(self.evaluate(arg)?)
EvaluateArgs(arguments, args, st) ==
  IF arguments = <<>> THEN IOk(st, args)
  ELSE LET r == Run("Evaluate", Head(arguments), NoNode, st)
       IN IF ~r.ok THEN r ELSE Run("EvaluateArgs", Tail(arguments), Append(args, r.v), r.st)

\* ExprVisitor::visit for Interpreter
Evaluate(expr, st) ==
  CASE expr.k = "Binary" ->
         LET l == Run("Evaluate", expr.left, NoNode, st)
         IN IF ~l.ok THEN l
            ELSE LET r == Run("Evaluate", expr.right, NoNode, l.st)
                 IN IF ~r.ok THEN r ELSE BinaryOp(r.st, expr.op, l.v, r.v)
    [] expr.k = "Call" ->
         LET c == Run("Evaluate", expr.callee, NoNode, st)
         IN IF ~c.ok THEN c
            ELSE LET a == Run("EvaluateArgs", expr.arguments, <<>>, c.st)
                 IN IF ~a.ok THEN a
                    ELSE IF c.v.t # "Func"
                    THEN Raise(a.st, expr.paren, "Can only call functions and classes.")
                    ELSE IF Len(a.v) # c.v.arity
                    THEN IErr([a.st EXCEPT !.errs = @ + 1],
                              ArityError(expr.paren, c.v.arity, Len(a.v)))
                    ELSE Run("CallFunction", c.v, a.v, a.st)
    [] expr.k = "Grouping" -> Run("Evaluate", expr.expr, NoNode, st)
    [] expr.k = "Literal" -> IOk(st, expr.lit)
    [] expr.k = "Logical" ->
         LET l == Run("Evaluate", expr.left, NoNode, st)
         IN IF ~l.ok THEN l
            ELSE IF expr.op.ty = "Or" /\ IsTruthy(l.v) THEN l
            ELSE IF expr.op.ty = "And" /\ ~IsTruthy(l.v) THEN l
            ELSE Run("Evaluate", expr.right, NoNode, l.st)
    [] expr.k = "Unary" ->
         LET r == Run("Evaluate", expr.right, NoNode, st)
         IN IF ~r.ok THEN r ELSE UnaryOp(r.st, expr.op, r.v)
    [] expr.k = "Variable" ->
         IF Binder(st.env, expr.name.raw) = 0
         THEN Raise(st, expr.name, "Undefined variable.")
         ELSE IOk(st, Lookup(st.env, expr.name.raw))
    [] expr.k = "Assign" ->
         LET v == Run("Evaluate", expr.value, NoNode, st)
         IN IF ~v.ok THEN v
            ELSE IF Binder(v.st.env, expr.name.raw) = 0
            THEN Raise(v.st, expr.name, "Undefined variable.")
            ELSE IOk([v.st EXCEPT !.env = Assign(@, expr.name.raw, v.v)], v.v)

\* the while loop of the While arm
WhileLoop(stmt, st) ==
  LET c == Run("Evaluate", stmt.condition, NoNode, st)
  IN IF ~c.ok THEN c
     ELSE IF ~IsTruthy(c.v) THEN IOk(c.st, LitNil)
     ELSE IF c.st.fuel = 0 THEN OutOfFuel(c.st)
     ELSE LET b == Run("Execute", stmt.body, NoNode, [c.st EXCEPT !.fuel = @ - 1])
          IN IF ~b.ok THEN b ELSE Run("WhileLoop", stmt, NoNode, b.st)

\* StmtVisitor::visit for Interpreter
Visit(stmt, st) ==
  CASE stmt.k = "Block" -> Run("ExecuteBlock", stmt.statements, EmptyValues, st)
    [] stmt.k = "Expression" -> Run("Evaluate", stmt.expr, NoNode, st)
    [] stmt.k = "If" ->
         LET c == Run("Evaluate", stmt.condition, NoNode, st)
         IN IF ~c.ok THEN c
            ELSE IF IsTruthy(c.v) THEN Run("Execute", stmt.then_branch, NoNode, c.st)
            ELSE IF stmt.else_branch.k # "None" THEN Run("Execute", stmt.else_branch, NoNode, c.st)
            ELSE IOk(c.st, LitNil)
    [] stmt.k = "Print" ->
         LET v == Run("Evaluate", stmt.expr, NoNode, st)
         IN IF ~v.ok THEN v
            ELSE IOk([v.st EXCEPT !.out = Append(@, Display(v.v))], LitNil)
    [] stmt.k = "Var" ->
         LET v == IF stmt.init.k # "None" THEN Run("Evaluate", stmt.init, NoNode, st) ELSE IOk(st, LitNil)
         IN IF ~v.ok THEN v
            ELSE IOk([v.st EXCEPT !.env = Define(@, stmt.name.raw, v.v)], LitNil)
    [] stmt.k = "While" -> Run("WhileLoop", stmt, NoNode, st)
    [] stmt.k = "Function" ->
         IOk([st EXCEPT !.env = Define(@, stmt.name.raw,
                                       UserFunction(stmt.name.raw, stmt.params, stmt.body))],
             LitNil)

\* Interpreter::execute
Execute(stmt, st) ==
  Run("Visit", stmt, NoNode, [st EXCEPT !.execs = @ + 1,
                         !.late = IF st.errs > 0 THEN @ + 1 ELSE @])

\* the call of one interpreter function from another: every such call goes through
\* this operator, which only hands the arguments on (y is the second argument, if any)
Run(name, x, y, st) ==
  CASE name = "Evaluate" -> Evaluate(x, st)
    [] name = "EvaluateArgs" -> EvaluateArgs(x, y, st)
    [] name = "Execute" -> Execute(x, st)
    [] name = "BlockStatements" -> BlockStatements(x, st)
    [] name = "ExecuteBlock" -> ExecuteBlock(x, y, st)
    [] name = "WhileLoop" -> WhileLoop(x, st)
    [] name = "CallFunction" -> CallFunction(x, y, st)
    [] name = "Visit" -> Visit(x, st)

\* Interpreter::new: the global scope, with clock defined
NewInterpreter ==
  [env |-> <<[id |-> 0,
              values |-> Insert(EmptyValues, <<"c", "l", "o", "c", "k">>,
                                NativeFunction(0, 1))]>>,
   out |-> <<>>, time |-> 0, nextId |-> 1, fuel |-> MaxFuel,
   execs |-> 0, errs |-> 0, late |-> 0, blocks |-> <<>>]


-----------------------------------------------------------------------------
(* Inputs *)

\* every sequence over S of length at most n
SeqsUpTo(S, n) == UNION {[1..m -> S] : m \in 0..n}

\* the characters of the enumerated source texts: a digit, the dot, a letter, the
\* quote, the slash, a newline, the semicolon, and '_' (not alphanumeric, and no
\* punctuation of the language)
SrcAlphabet == {"1", ".", "a", "\"", "/", "\n", ";", "_"}

SrcFor ==
  <<"f", "o", "r", " ", "(", "v", "a", "r", " ", "i", " ", "=", " ", "0", ";", " ", "i", " ", "<", " ", "3", ";", " ", "i", " ", "=", " ", "i", " ", "+", " ", "1", ")", " ", "p", "r", "i", "n", "t", " ", "i", ";">>
SrcEqual ==
  <<"p", "r", "i", "n", "t", " ", "1", " ", "=", "=", " ", "1", ";">>
SrcNotEqual ==
  <<"p", "r", "i", "n", "t", " ", "1", " ", "!", "=", " ", "2", ";">>
SrcFun ==
  <<"f", "u", "n", " ", "f", "(", "a", ")", " ", "{", " ", "p", "r", "i", "n", "t", " ", "a", ";", " ", "}", "\n", "f", "(", "1", ")", ";">>
SrcFunArity ==
  <<"f", "u", "n", " ", "f", "(", "a", ")", " ", "{", " ", "p", "r", "i", "n", "t", " ", "a", ";", " ", "}", "\n", "f", "(", ")", ";">>
SrcTwoMissingSemicolons ==
  <<"v", "a", "r", " ", "a", " ", "=", " ", "1", "\n", "p", "r", "i", "n", "t", " ", "a", ";", "\n", "v", "a", "r", " ", "b", " ", "=", " ", "2", "\n", "p", "r", "i", "n", "t", " ", "b", ";">>
SrcTwoMissingExpressions ==
  <<"p", "r", "i", "n", "t", " ", ";", " ", "p", "r", "i", "n", "t", " ", ";">>
SrcVarNoName ==
  <<"v", "a", "r", " ", "1", ";">>
SrcBlockError ==
  <<"v", "a", "r", " ", "a", " ", "=", " ", "1", ";", " ", "{", " ", "v", "a", "r", " ", "b", " ", "=", " ", "2", ";", " ", "p", "r", "i", "n", "t", " ", "-", "n", "i", "l", ";", " ", "}", " ", "p", "r", "i", "n", "t", " ", "a", ";">>
SrcWhile ==
  <<"v", "a", "r", " ", "a", " ", "=", " ", "0", ";", " ", "w", "h", "i", "l", "e", " ", "(", "a", " ", "<", " ", "2", ")", " ", "a", " ", "=", " ", "a", " ", "+", " ", "1", ";", " ", "p", "r", "i", "n", "t", " ", "a", ";">>

\* an if without parentheses, an if and a while whose '(' is never closed
SrcIfNoParens ==
  <<"i", "f", " ", "1", " ", "p", "r", "i", "n", "t", " ", "1", ";">>
SrcIfNoClose ==
  <<"i", "f", " ", "(", "1", " ", "p", "r", "i", "n", "t", " ", "1", ";">>
SrcWhileNoClose ==
  <<"w", "h", "i", "l", "e", " ", "(", "n", "i", "l", " ", "p", "r", "i", "n", "t", " ", "1", ";">>

\* errors inside blocks nested in a block that is never closed
SrcNestedBlockErrors ==
  <<"{", " ", "{", " ", ".", " ", "}", " ", "p", "r", "i", "n", "t", " ", ";", " ", "{", " ", "1", " ", "}">>

SampleSources ==
  {SrcFor,
   SrcEqual,
   SrcNotEqual,
   SrcFun,
   SrcFunArity,
   SrcTwoMissingSemicolons,
   SrcTwoMissingExpressions,
   SrcVarNoName,
   SrcBlockError,
   SrcWhile,
   SrcIfNoParens,
   SrcIfNoClose,
   SrcWhileNoClose,
   SrcNestedBlockErrors}

\* the source texts of script mode
Sources == SeqsUpTo(SrcAlphabet, MaxSrcLen) \cup SampleSources

\* the line that reads the global a
LinePrintA == <<"p", "r", "i", "n", "t", " ", "a", ";">>

\* the lines of an interactive session
PromptLines ==
  {<<"v", "a", "r", " ", "a", " ", "=", " ", "1", ";">>,
   <<"a", " ", "=", " ", "a", " ", "+", " ", "1", ";">>,
   <<"p", "r", "i", "n", "t", " ", "a", ";">>,
   <<"p", "r", "i", "n", "t", " ", "-", "n", "i", "l", ";">>,
   <<"p", "r", "i", "n", "t", " ", "1">>,
   <<"_">>}

-----------------------------------------------------------------------------
(* The process: main -> Lox::run_file | Lox::run_prompt -> Lox::run *)

NoExit == -1
\* std::process::exit(1) of Lox::run_file
ExitFailure == 1
\* the status of a process whose main thread panicked
ExitPanic == 101

\* what Lox::run_file and Lox::run_prompt do with the Err of Lox::run: both report
\* it; run_file exits with status 1, run_prompt prompts again
RunFailed(err) ==
  /\ reports' = Report(reports, err)
  /\ IF mode = "file"
     THEN pc' = "exited" /\ exitCode' = ExitFailure
     ELSE pc' = "prompt" /\ exitCode' = exitCode

\* what they do with its Ok: run_file returns to main, which ends with status 0
RunSucceeded ==
  IF mode = "file"
  THEN pc' = "exited" /\ exitCode' = 0
  ELSE pc' = "prompt" /\ exitCode' = exitCode

InitCommon ==
  /\ lines = 0
  /\ stream = InitPos
  /\ start = InitPos
  /\ current = 0
  /\ ip = 0
  /\ interp = NewInterpreter
  /\ reports = <<>>
  /\ events = <<>>
  /\ exitCode = NoExit

\* main with a file name (the file's text is source), or without one
Init ==
  /\ InitCommon
  /\ tokens = <<>>
  /\ statements = <<>>
  /\ \/ mode = "file" /\ pc = "scan" /\ source \in Sources
     \/ mode = "prompt" /\ pc = "prompt" /\ source = <<>>

\* a session that runs each line on an interpreter of its own: the session the
\* persistence rule of C18 excludes
ReadLineFresh ==
  /\ pc = "prompt"
  /\ lines < MaxLines
  /\ \E line \in PromptLines : source' = line
  /\ lines' = lines + 1
  /\ pc' = "scan"
  /\ stream' = InitPos
  /\ start' = InitPos
  /\ tokens' = <<>>
  /\ current' = 0
  /\ statements' = <<>>
  /\ ip' = 0
  /\ interp' = [NewInterpreter EXCEPT !.out = interp.out]
  /\ UNCHANGED <<mode, reports, events, exitCode>>

\* Lox::run_prompt reads a line and Lox::run starts on it with a new Scanner
ReadLine ==
  /\ pc = "prompt"
  /\ lines < MaxLines
  /\ \E line \in PromptLines : source' = line
  /\ lines' = lines + 1
  /\ pc' = "scan"
  /\ stream' = InitPos
  /\ start' = InitPos
  /\ tokens' = <<>>
  /\ current' = 0
  /\ statements' = <<>>
  /\ ip' = 0
  /\ UNCHANGED <<mode, interp, reports, events, exitCode>>

\* the input of run_prompt ends: it returns Ok and main ends
EndOfInput ==
  /\ pc = "prompt"
  /\ pc' = "exited"
  /\ exitCode' = 0
  /\ UNCHANGED <<mode, lines, source, stream, start, tokens, current, statements, ip,
                 interp, reports, events>>

\* one iteration of the loop of Scanner::scan_tokens
ScanStep ==
  /\ pc = "scan"
  /\ StreamNext(source, stream).c # NoChar
  /\ LET n == StreamNext(source, stream)
         sc == ScanToken(source,
                         [pos |-> n.pos, start |-> start, tokens |-> tokens,
                          res |-> "ok", err |-> NoLexErr],
                         n.c)
     IN /\ stream' = sc.pos
        /\ start' = sc.start
        /\ tokens' = sc.tokens
        /\ CASE sc.res = "ok" -> pc' = "scan" /\ UNCHANGED <<reports, exitCode>>
             [] sc.res = "lex" -> RunFailed(LexErrorValue(sc.err.pos, sc.err.message))
             [] sc.res = "panic" ->
                  pc' = "aborted" /\ exitCode' = ExitPanic /\ UNCHANGED reports
  /\ UNCHANGED <<mode, lines, source, current, statements, ip, interp, events>>

\* the end of Scanner::scan_tokens, and Parser::new on its tokens
ScanEnd ==
  /\ pc = "scan"
  /\ StreamNext(source, stream).c = NoChar
  /\ stream' = StreamNext(source, stream).pos
  /\ tokens' = Append(tokens, EofToken(stream'))
  /\ current' = 0
  /\ pc' = "parse"
  /\ UNCHANGED <<mode, lines, source, start, statements, ip, interp, reports, events,
                 exitCode>>

\* one iteration of the loop of Parser::parse
ParseStep ==
  /\ pc = "parse"
  /\ ~AtEnd(tokens, [cur |-> current])
  /\ \E d \in {Rule("Declaration", tokens,
                     [cur |-> current, reports |-> reports, events |-> events], NoNode)} :
        /\ current' = d.p.cur
        /\ events' = d.p.events
        /\ IF d.ok
           THEN /\ statements' = IF d.v.k = "None" THEN statements
                                 ELSE Append(statements, d.v)
                /\ reports' = d.p.reports
                /\ pc' = "parse"
                /\ UNCHANGED exitCode
           ELSE /\ statements' = statements
                /\ RunFailed(d.e)
  /\ UNCHANGED <<mode, lines, source, stream, start, tokens, ip, interp>>

\* Parser::parse returns its statements and Interpreter::interpret starts
ParseEnd ==
  /\ pc = "parse"
  /\ AtEnd(tokens, [cur |-> current])
  /\ ip' = 1
  /\ pc' = "interpret"
  /\ UNCHANGED <<mode, lines, source, stream, start, tokens, current, statements,
                 interp, reports, events, exitCode>>

\* one iteration of the loop of Interpreter::interpret
InterpretStep ==
  /\ pc = "interpret"
  /\ ip <= Len(statements)
  /\ \E r \in {Run("Execute", statements[ip], NoNode, [interp EXCEPT !.fuel = MaxFuel])} :
        /\ interp' = r.st
        /\ IF r.ok
           THEN ip' = ip + 1 /\ pc' = "interpret" /\ UNCHANGED <<reports, exitCode>>
           ELSE IF r.e.kind = "Fuel"
           THEN ip' = ip /\ pc' = "diverged" /\ UNCHANGED <<reports, exitCode>>
           ELSE ip' = ip /\ RunFailed(r.e)
  /\ UNCHANGED <<mode, lines, source, stream, start, tokens, current, statements,
                 events>>

\* Interpreter::interpret returns Ok, and so does Lox::run
InterpretEnd ==
  /\ pc = "interpret"
  /\ ip > Len(statements)
  /\ RunSucceeded
  /\ UNCHANGED <<mode, lines, source, stream, start, tokens, current, statements, ip,
                 interp, reports, events>>

Next ==
  \/ ReadLine
  \/ EndOfInput
  \/ ScanStep
  \/ ScanEnd
  \/ ParseStep
  \/ ParseEnd
  \/ InterpretStep
  \/ InterpretEnd

Spec == Init /\ [][Next]_vars

-----------------------------------------------------------------------------
(* Interpreter::interpret on statement sequences built directly from the     *)
(* constructors of expr.rs, function declarations among them                 *)

MaxStmts == 3

\* a token as the constructors need it: a type and a text
Tok(ty, raw) == Token(ty, raw, InitPos, NoLit)

NameA == Tok("Ident", <<"a">>)
NameF == Tok("Ident", <<"f">>)
NameG == Tok("Ident", <<"g">>)
Paren == Tok("RightParen", <<")">>)

\* -nil
NegNil == ExprUnary(Tok("Minus", <<"-">>), ExprLit(LitNil))
\* print 1;
StPrintOne == StmtPrint(ExprLit(LitNum(1)))
\* fun f() { print -nil; print 2; }
StFunF == StmtFunction(NameF, <<>>, <<StmtPrint(NegNil), StmtPrint(ExprLit(LitNum(2)))>>)
\* fun g(a) { { print a; } }
StFunG == StmtFunction(NameG, <<NameA>>, <<StmtBlock(<<StmtPrint(ExprVar(NameA))>>)>>)
\* f();
StCallF == StmtExpression(ExprCall(ExprVar(NameF), Paren, <<>>))
\* g(1);
StCallG == StmtExpression(ExprCall(ExprVar(NameG), Paren, <<ExprLit(LitNum(1))>>))
\* g();
StCallGNoArgs == StmtExpression(ExprCall(ExprVar(NameG), Paren, <<>>))
\* { var a = 1; { print -nil; } print 1; }
StBlockFail ==
  StmtBlock(<<StmtVar(NameA, ExprLit(LitNum(1))), StmtBlock(<<StmtPrint(NegNil)>>),
              StPrintOne>>)
\* while (true) { print -nil; }
StWhileFail == StmtWhile(ExprLit(LitBool(TRUE)), StmtBlock(<<StmtPrint(NegNil)>>))
\* while (true) f();
StWhileCallF == StmtWhile(ExprLit(LitBool(TRUE)), StCallF)
\* if (true) { f(); print 1; }
StIfCallF == StmtIf(ExprLit(LitBool(TRUE)), StmtBlock(<<StCallF, StPrintOne>>), NoNode)

StatementPool ==
  {StPrintOne, StFunF, StFunG, StCallF, StCallG, StCallGNoArgs, StBlockFail,
   StWhileFail, StWhileCallF, StIfCallF}

\* Lox::run of a script, at the call of Interpreter::interpret
InitInterp ==
  /\ mode = "file"
  /\ lines = 0
  /\ source = <<>>
  /\ stream = InitPos
  /\ start = InitPos
  /\ tokens = <<>>
  /\ current = 0
  /\ statements \in SeqsUpTo(StatementPool, MaxStmts)
  /\ ip = 1
  /\ interp = NewInterpreter
  /\ reports = <<>>
  /\ events = <<>>
  /\ exitCode = NoExit
  /\ pc = "interpret"

NextInterp ==
  \/ InterpretStep
  \/ InterpretEnd

SpecInterp == InitInterp /\ [][NextInterp]_vars

-----------------------------------------------------------------------------
(* Interpreter::interpret on statements that declare, read and assign variables *)
(* at top level and inside blocks                                               *)

NameB == Tok("Ident", <<"b">>)

\* var a = 1;
StVarA == StmtVar(NameA, ExprLit(LitNum(1)))
\* print a;
StPrintA == StmtPrint(ExprVar(NameA))
\* { var a = 2; print a; }
StBlockShadow == StmtBlock(<<StmtVar(NameA, ExprLit(LitNum(2))), StPrintA>>)
\* { var a = 2; { var a = 3; print a; } print a; }
StBlockNested ==
  StmtBlock(<<StmtVar(NameA, ExprLit(LitNum(2))),
              StmtBlock(<<StmtVar(NameA, ExprLit(LitNum(3))), StPrintA>>),
              StPrintA>>)
\* a = 5;
StAssignA == StmtExpression(ExprAssign(NameA, ExprLit(LitNum(5))))
\* { var a = 2; { var b = 1; a = 5; } print a; }
StBlockAssignInner ==
  StmtBlock(<<StmtVar(NameA, ExprLit(LitNum(2))),
              StmtBlock(<<StmtVar(NameB, ExprLit(LitNum(1))), StAssignA>>),
              StPrintA>>)
\* { var b = 2; a = 5; print b; }
StBlockAssignOuter ==
  StmtBlock(<<StmtVar(NameB, ExprLit(LitNum(2))), StAssignA, StmtPrint(ExprVar(NameB))>>)

ScopePool ==
  {StVarA, StPrintA, StBlockShadow, StBlockNested, StAssignA, StBlockAssignInner,
   StBlockAssignOuter}

\* Lox::run of a script, at the call of Interpreter::interpret
InitEnv ==
  /\ mode = "file"
  /\ lines = 0
  /\ source = <<>>
  /\ stream = InitPos
  /\ start = InitPos
  /\ tokens = <<>>
  /\ current = 0
  /\ statements \in SeqsUpTo(ScopePool, MaxStmts)
  /\ ip = 1
  /\ interp = NewInterpreter
  /\ reports = <<>>
  /\ events = <<>>
  /\ exitCode = NoExit
  /\ pc = "interpret"

SpecEnv == InitEnv /\ [][NextInterp]_vars

-----------------------------------------------------------------------------
(* Interpreter::interpret on statements that call with arguments that assign *)

NameH == Tok("Ident", <<"h">>)
NameX == Tok("Ident", <<"x">>)

\* fun h(x) { print x; }
StFunH == StmtFunction(NameH, <<NameX>>, <<StmtPrint(ExprVar(NameX))>>)
\* a(a = 5);
StCallNumber ==
  StmtExpression(ExprCall(ExprVar(NameA), Paren, <<ExprAssign(NameA, ExprLit(LitNum(5)))>>))
\* h(a = 5, a = 6);
StCallTwoArgs ==
  StmtExpression(ExprCall(ExprVar(NameH), Paren,
                          <<ExprAssign(NameA, ExprLit(LitNum(5))),
                            ExprAssign(NameA, ExprLit(LitNum(6)))>>))
\* h(a = 5);
StCallOneArg ==
  StmtExpression(ExprCall(ExprVar(NameH), Paren, <<ExprAssign(NameA, ExprLit(LitNum(5)))>>))
\* h(h = 1);
StCallRebind ==
  StmtExpression(ExprCall(ExprVar(NameH), Paren, <<ExprAssign(NameH, ExprLit(LitNum(1)))>>))

CallPool ==
  {StVarA, StFunH, StCallNumber, StCallTwoArgs, StCallOneArg, StCallRebind, StPrintA}

\* Lox::run of a script, at the call of Interpreter::interpret
InitCall ==
  /\ mode = "file"
  /\ lines = 0
  /\ source = <<>>
  /\ stream = InitPos
  /\ start = InitPos
  /\ tokens = <<>>
  /\ current = 0
  /\ statements \in SeqsUpTo(CallPool, MaxStmts)
  /\ ip = 1
  /\ interp = NewInterpreter
  /\ reports = <<>>
  /\ events = <<>>
  /\ exitCode = NoExit
  /\ pc = "interpret"

SpecCall == InitCall /\ [][NextInterp]_vars

-----------------------------------------------------------------------------
(* Interpreter::interpret on statements that call a function from inside a block *)
(* that has a local of the name the function reads and assigns                   *)

NameP == Tok("Ident", <<"p">>)

\* fun p() { print a; a = 7; }
StFunP ==
  StmtFunction(NameP, <<>>,
               <<StPrintA, StmtExpression(ExprAssign(NameA, ExprLit(LitNum(7))))>>)
\* p();
StCallP == StmtExpression(ExprCall(ExprVar(NameP), Paren, <<>>))
\* { var a = 2; p(); print a; }
StBlockCallP == StmtBlock(<<StmtVar(NameA, ExprLit(LitNum(2))), StCallP, StPrintA>>)

CalleePool == {StVarA, StFunP, StCallP, StBlockCallP, StPrintA}

\* Lox::run of a script, at the call of Interpreter::interpret
InitCallee ==
  /\ mode = "file"
  /\ lines = 0
  /\ source = <<>>
  /\ stream = InitPos
  /\ start = InitPos
  /\ tokens = <<>>
  /\ current = 0
  /\ statements \in SeqsUpTo(CalleePool, MaxStmts)
  /\ ip = 1
  /\ interp = NewInterpreter
  /\ reports = <<>>
  /\ events = <<>>
  /\ exitCode = NoExit
  /\ pc = "interpret"

SpecCallee == InitCallee /\ [][NextInterp]_vars

-----------------------------------------------------------------------------
(* Properties *)

\* the parse errors among the reported errors
ParseReports == SelectSeq(reports, LAMBDA e : e.kind = "ParseError")

C2_EnvironmentRestored ==
  /\ \A i \in 1..Len(interp.blocks) : interp.blocks[i].exit = interp.blocks[i].entry
  /\ Len(interp.env) = 1
  /\ interp.env[1].id = 0

\* C2: a failed run that returned from a block nested in a block with the error
C2_NestedBlockFailed ==
  /\ pc = "exited"
  /\ exitCode = ExitFailure
  /\ interp.errs > 0
  /\ \E i \in 1..Len(interp.blocks) : Len(interp.blocks[i].entry) >= 2

\* C3: a script exits with status zero exactly when no error was reported
C3_ExitStatusTellsErrors ==
  (mode = "file" /\ pc = "exited") => (exitCode = 0 <=> reports = <<>>)

\* C4: one parse of a text with two independent malformed statements reports two
\* parse errors, one for each
C4_TwoErrorsReported ==
  (/\ mode = "file"
   /\ source \in {SrcTwoMissingSemicolons, SrcTwoMissingExpressions}
   /\ pc \in {"interpret", "exited"})
  => Len(ParseReports) = 2

\* C5: every parse error is reported where it is raised: the report of the same
\* error follows at once, before any synchronization, and nothing else is reported
C5_ReportedWhenDetected ==
  \A i \in 1..Len(events) :
    /\ events[i].ev = "raise" =>
         /\ i < Len(events)
         /\ events[i + 1].ev = "report"
         /\ events[i + 1].err = events[i].err
    /\ events[i].ev = "report" => (i > 1 /\ events[i - 1].ev = "raise")

\* C6: scan_tokens ends with its tokens or with a lexical error, for a character it
\* does not know or a string left open; it never aborts
C6_ScanNeverAborts ==
  /\ pc # "aborted"
  /\ \A i \in 1..Len(reports) :
       reports[i].kind = "LexError" =>
         reports[i].message \in {"Unexpected character", "Unterminated string."}

\* C7: the tokens of a successful scan end with EOF and hold no other EOF; no token
\* pushed while scanning is EOF
C7_OneTrailingEof ==
  /\ pc = "scan" => \A i \in 1..Len(tokens) : tokens[i].ty # "EOF"
  /\ pc \in {"parse", "interpret"} =>
       /\ Len(tokens) >= 1
       /\ tokens[Len(tokens)].ty = "EOF"
       /\ \A i \in 1..(Len(tokens) - 1) : tokens[i].ty # "EOF"

\* C7: the scan of a text that ends in a line comment after a token has succeeded
C7_CommentEndsText ==
  /\ pc = "parse"
  /\ source = <<"1", "/", "/", "a">>
  /\ Len(tokens) = 2

\* C8: the for statement of SrcFor is parsed into a block and running it prints 0, 1
\* and 2, one per line
C8_ForPrintsZeroOneTwo ==
  /\ (mode = "file" /\ source = SrcFor /\ pc = "interpret") =>
       (ParseReports = <<>> /\ Len(statements) = 1 /\ statements[1].k = "Block")
  /\ (mode = "file" /\ source = SrcFor /\ pc = "exited") =>
       interp.out = <<<<"0">>, <<"1">>, <<"2">>>>

\* C9: 1 == 1 and 1 != 2 are parsed as binary expressions and both evaluate to true
C9_EqualityParsedAndEvaluated ==
  /\ (mode = "file" /\ source \in {SrcEqual, SrcNotEqual} /\ pc = "interpret") =>
       /\ ParseReports = <<>>
       /\ Len(statements) = 1
       /\ statements[1].expr.k = "Binary"
  /\ (mode = "file" /\ source \in {SrcEqual, SrcNotEqual} /\ pc = "exited") =>
       (exitCode = 0 /\ interp.out = <<KW_true>>)

\* C10: a function declaration is parsed into a function statement without a parse
\* error, and the call that follows it runs the body
C10_FunctionDeclarationParsed ==
  /\ (mode = "file" /\ source \in {SrcFun, SrcFunArity} /\ pc = "interpret") =>
       /\ ParseReports = <<>>
       /\ Len(statements) = 2
       /\ statements[1].k = "Function"
  /\ (mode = "file" /\ source = SrcFun /\ pc = "exited") => interp.out = <<<<"1">>>>

\* C11: a text made of digits, a '.' and digits is scanned as one number token whose
\* raw text is the whole text; in a text where the '.' after the digits is not
\* followed by a digit, the number token ends before the '.' and a Dot token follows
C11_FractionIsOneToken ==
  (pc = "parse" /\ DotIndex(source) >= 2 /\ AllDigits(SubSeq(source, 1, DotIndex(source) - 1)))
  => IF DotIndex(source) < Len(source) /\ IsDigit(source[DotIndex(source) + 1])
     THEN (AllDigits(SubSeq(source, DotIndex(source) + 1, Len(source))) =>
             /\ Len(tokens) = 2
             /\ tokens[1].ty = "Literal"
             /\ tokens[1].raw = source)
     ELSE /\ Len(tokens) >= 3
          /\ tokens[1].ty = "Literal"
          /\ tokens[1].raw = SubSeq(source, 1, DotIndex(source) - 1)
          /\ tokens[2].ty = "Dot"

\* C12: a text of letters, digits and underscores that starts with a letter or an
\* underscore is scanned without a lexical error as one token holding the whole text,
\* a keyword or literal token when the keyword table has the text, else an identifier
C12_UnderscoreInIdentifier ==
  (/\ source # <<>>
   /\ \A i \in 1..Len(source) : source[i] \in Letters \cup Digits \cup {"_"}
   /\ ~IsDigit(source[1]))
  => /\ \A i \in 1..Len(reports) : reports[i].kind # "LexError"
     /\ pc = "parse" =>
          /\ Len(tokens) = 2
          /\ tokens[1].raw = source
          /\ tokens[1].ty = KeywordType(source)

\* C13: every token but EOF sits at its first character: its index is the 0-based
\* index of that character in the source, its line is 1 plus the number of newlines
\* before that character, and its raw text is the source from that index on
C13_TokenPositionIsFirstChar ==
  \A i \in 1..Len(tokens) :
    tokens[i].ty # "EOF" =>
      /\ Len(tokens[i].raw) >= 1
      /\ tokens[i].pos.idx + Len(tokens[i].raw) <= Len(source)
      /\ tokens[i].raw =
           SubSeq(source, tokens[i].pos.idx + 1, tokens[i].pos.idx + Len(tokens[i].raw))
      /\ tokens[i].pos.line =
           1 + Cardinality({j \in 1..tokens[i].pos.idx : source[j] = "\n"})

\* C14: when the scanner reads a '"' that no later '"' closes, whatever follows it,
\* the scan ends at once with one lexical error "Unterminated string." placed at the
\* end of the input: no tokens go to the parser and the scan does not abort
C14_UnterminatedStringIsOneError ==
  [][(/\ pc = "scan"
      /\ stream.idx < Len(source)
      /\ source[stream.idx + 1] = "\""
      /\ \A j \in (stream.idx + 2)..Len(source) : source[j] # "\"")
     => /\ pc' \in {"exited", "prompt"}
        /\ mode = "file" => exitCode' = ExitFailure
        /\ Len(reports') = Len(reports) + 1
        /\ SubSeq(reports', 1, Len(reports)) = reports
        /\ reports'[Len(reports')].kind = "LexError"
        /\ reports'[Len(reports')].message = "Unterminated string."
        /\ reports'[Len(reports')].pos.idx >= Len(source)]_vars

\* C14: a script that opens a string after a token and leaves it open over a newline
\* has ended with the one lexical error
C14_OpenStringOverNewline ==
  /\ mode = "file"
  /\ pc = "exited"
  /\ source = <<"1", "\"", "\n", "a">>
  /\ Len(reports) = 1
  /\ reports[1].message = "Unterminated string."

\* C15: a block that declares a and reads it prints the inner value, also from a block
\* nested in it, and leaves the enclosing scope as it was: a binding of a there keeps
\* its value, and no binding of a is made there when it had none
C15_BlockVarStaysInBlock ==
  [][(/\ pc = "interpret"
      /\ ip <= Len(statements)
      /\ statements[ip] \in {StBlockShadow, StBlockNested})
     => /\ interp'.env = interp.env
        /\ interp'.out = interp.out \o (IF statements[ip] = StBlockShadow
                                         THEN <<<<"2">>>>
                                         ELSE <<<<"3">>, <<"2">>>>)]_vars

\* C15: var a = 1; { var a = 2; print a; } print a; has printed 2 and then 1
C15_ShadowPrintsTwoThenOne ==
  /\ pc = "exited"
  /\ statements = <<StVarA, StBlockShadow, StPrintA>>
  /\ interp.out = <<<<"2">>, <<"1">>>>

\* C16: an assignment to a changes the binding of a in the innermost scope that binds
\* it and nothing else: from the top level or from a block that does not declare a it
\* changes the global binding of a alone, or fails with "Undefined variable" and
\* changes nothing when a is unbound; inside a block that declares a it changes that
\* block's binding and leaves the global scope as it was
C16_AssignChangesOneBinding ==
  [][(/\ pc = "interpret"
      /\ ip <= Len(statements)
      /\ statements[ip] \in {StAssignA, StBlockAssignOuter, StBlockAssignInner})
     => IF statements[ip] = StBlockAssignInner
        THEN /\ interp'.env = interp.env
             /\ interp'.out = Append(interp.out, <<"5">>)
             /\ pc' = "interpret"
        ELSE IF <<"a">> \in DOMAIN interp.env[1].values
        THEN /\ interp'.env =
                  <<[id |-> 0,
                     values |-> [n \in DOMAIN interp.env[1].values |->
                                   IF n = <<"a">> THEN LitNum(5)
                                   ELSE interp.env[1].values[n]]]>>
             /\ pc' = "interpret"
        ELSE /\ interp'.env = interp.env
             /\ interp'.out = interp.out
             /\ pc' = "exited"
             /\ exitCode' = ExitFailure
             /\ Len(reports') = 1
             /\ reports'[1].kind = "RuntimeError"
             /\ reports'[1].message = "Undefined variable."
             /\ reports'[1].token.raw = <<"a">>]_vars

\* C16: var a = 1; { var b = 2; a = 5; print b; } print a; has printed 2 and then 5
C16_AssignedFromBlock ==
  /\ pc = "exited"
  /\ statements = <<StVarA, StBlockAssignOuter, StPrintA>>
  /\ interp.out = <<<<"2">>, <<"5">>>>
  /\ DOMAIN interp.env[1].values = {<<"a">>, <<"c", "l", "o", "c", "k">>}

\* C17: a call evaluates its callee, then its arguments from left to right, and only
\* then checks the callee: a callee that is no function, or a number of arguments other
\* than the arity, is a runtime error (the arity error states both counts) raised
\* after the arguments' assignments were made and without running a body; an error of
\* an argument comes before that check; a call that passes the check runs the body
C17_ArgumentsBeforeDispatch ==
  [][(pc = "interpret" /\ ip <= Len(statements))
     => LET G == interp.env[1].values
            IsFn(n) == n \in DOMAIN G /\ G[n].t = "Func"
            With(n, v) ==
              interp'.env =
                <<[id |-> 0, values |-> [k \in DOMAIN G |-> IF k = n THEN v ELSE G[k]]]>>
            Failure(msg) ==
              /\ pc' = "exited"
              /\ exitCode' = ExitFailure
              /\ interp'.out = interp.out
              /\ Len(reports') = 1
              /\ reports'[1].kind = "RuntimeError"
              /\ reports'[1].message = msg
        IN /\ (statements[ip] = StCallTwoArgs /\ IsFn(<<"h">>) /\ <<"a">> \in DOMAIN G) =>
                /\ With(<<"a">>, LitNum(6))
                /\ Failure("Expected N arguments but got M.")
                /\ reports'[1].expected = 1
                /\ reports'[1].got = 2
           /\ (statements[ip] = StCallTwoArgs /\ IsFn(<<"h">>) /\ <<"a">> \notin DOMAIN G) =>
                /\ interp'.env = interp.env
                /\ Failure("Undefined variable.")
           /\ (statements[ip] = StCallNumber /\ <<"a">> \in DOMAIN G) =>
                /\ With(<<"a">>, LitNum(5))
                /\ Failure("Can only call functions and classes.")
           /\ (statements[ip] = StCallRebind /\ IsFn(<<"h">>)) =>
                /\ With(<<"h">>, LitNum(1))
                /\ interp'.out = Append(interp.out, <<"1">>)
                /\ pc' = "interpret"
           /\ (statements[ip] = StCallRebind /\ <<"h">> \in DOMAIN G /\ ~IsFn(<<"h">>)) =>
                /\ With(<<"h">>, LitNum(1))
                /\ Failure("Can only call functions and classes.")
           /\ (statements[ip] = StCallOneArg /\ IsFn(<<"h">>) /\ <<"a">> \in DOMAIN G) =>
                /\ With(<<"a">>, LitNum(5))
                /\ interp'.out = Append(interp.out, <<"5">>)
                /\ pc' = "interpret"]_vars

\* C17: var a = 1; fun h(x) { print x; } h(a = 5, a = 6); has failed with a equal to 6
\* and nothing printed
C17_ArityErrorAfterArguments ==
  /\ pc = "exited"
  /\ exitCode = ExitFailure
  /\ statements = <<StVarA, StFunH, StCallTwoArgs>>
  /\ interp.env[1].values[<<"a">>] = LitNum(6)
  /\ interp.out = <<>>

\* C18: in an interactive session the global scope lives on from line to line: only
\* the interpreter changes it, it never loses a binding, also when a line ends with a
\* lexical, parse or runtime error, a later line that prints a prints the value a has
\* then, and the session ends only when its input ends, with status 0
C18_GlobalsOutliveRuns ==
  [][mode = "prompt"
     => /\ pc' = "exited" => (pc = "prompt" /\ exitCode' = 0)
        /\ pc # "interpret" => interp'.env = interp.env
        /\ Len(interp'.env) = 1
        /\ DOMAIN interp.env[1].values \subseteq DOMAIN interp'.env[1].values
        /\ Len(reports') > Len(reports) => pc' \in {"prompt", "parse"}
        /\ (/\ pc = "interpret"
            /\ ip <= Len(statements)
            /\ source = LinePrintA
            /\ <<"a">> \in DOMAIN interp.env[1].values)
           => /\ interp'.out = Append(interp.out, Display(interp.env[1].values[<<"a">>]))
              /\ interp'.env = interp.env
              /\ pc' = "interpret"]_vars

\* C18: a session of three lines, one of them ended by a runtime error, whose last
\* line has printed the 1 an earlier line gave to a
C18_PrintedAfterFailedLine ==
  /\ mode = "prompt"
  /\ pc = "prompt"
  /\ lines = 3
  /\ source = LinePrintA
  /\ Len(reports) = 1
  /\ reports[1].kind = "RuntimeError"
  /\ reports[1].message = "Operand must be a number"
  /\ interp.out = <<<<"1">>>>

\* C19: every synchronization ends at the first statement boundary at or after the
\* token the parser stood at when the error was raised: right after that first
\* semicolon, or in front of that first class/fun/var/for/if/while/print/return (or of
\* EOF), whichever comes first, and parsing resumes there
C19_SynchronizeStopsAtBoundary ==
  mode = "file" =>
    \A i \in 1..Len(events) :
      events[i].ev = "sync" =>
        /\ i < Len(events)
        /\ events[i + 1].ev = "resume"
        /\ LET stops == {j \in events[i].cur..(Len(tokens) - 1) :
                           tokens[j + 1].ty \in SyncKeywords \cup {"Semicolon", "EOF"}}
               first == CHOOSE j \in stops : \A k \in stops : j <= k
           IN events[i + 1].cur =
                IF tokens[first + 1].ty = "Semicolon" THEN first + 1 ELSE first

\* C20: an if or a while whose condition lacks its '(' or its ')' is a parse error:
\* the error is reported and the parse yields no if or while statement for the text
C20_ConditionNeedsParentheses ==
  (/\ mode = "file"
   /\ source \in {SrcIfNoParens, SrcIfNoClose, SrcWhileNoClose}
   /\ pc \in {"interpret", "exited"})
  => /\ ParseReports # <<>>
     /\ \A i \in 1..Len(statements) : statements[i].k \notin {"If", "While"}

\* C21: every parse error carries the first token the parser could not accept: for a
\* missing token the token found in its place, the one the parser stands at; for
\* "Expected expression." the token found where the expression had to start, which is
\* the token before the one the parser stands at once it has advanced over it
C21_ErrorCarriesOffendingToken ==
  mode = "file" =>
    \A i \in 1..Len(events) :
      events[i].ev = "raise" =>
        IF events[i].err.message = "Expected expression."
        THEN (events[i].err.token.ty # "EOF" \/ Len(tokens) = 2) =>
               events[i].err.token = tokens[events[i].cur]
        ELSE events[i].err.message # "Invalid assignment target." =>
               events[i].err.token = tokens[events[i].cur + 1]

C23_ParseCursorAdvances ==
  [][pc = "parse"
     => /\ tokens[Len(tokens)].ty = "EOF"
        /\ current <= Len(tokens) - 1
        /\ current' <= Len(tokens) - 1
        /\ (pc' = "parse" => current' > current)
        /\ (pc' = "interpret" => current = Len(tokens) - 1)]_vars

\* C23: the parse of blocks nested in an unclosed block, with errors and
\* synchronizations inside them, has ended with the cursor at the end-marker
C23_NestedErrorsParsed ==
  /\ mode = "file"
  /\ source = SrcNestedBlockErrors
  /\ pc \in {"interpret", "exited"}
  /\ current = Len(tokens) - 1
  /\ Len(ParseReports) >= 1
  /\ Cardinality({i \in 1..Len(events) : events[i].ev = "sync"}) >= 2

=============================================================================
